---- MODULE Spec2Model ----
(***************************************************************************)
(* Wallet ledger and order model of database.py (users, products,          *)
(* transactions, orders, order items) together with the operations that    *)
(* drive it.  A table is a sequence whose index is the autoincrement       *)
(* primary key; a nullable column holds None or Some(x).                   *)
(***************************************************************************)
EXTENDS Integers, Sequences, FiniteSets, TLC

\* ------------------------------------------------------------------ bounds
MaxUsers == 2
MaxTx == 3
MaxValue == 2
MaxOrders == 2
MaxCart == 2
MaxQty == 2
MaxDate == 2

\* Python None / SQL NULL, and a present value
None == <<>>
Some(x) == <<x>>

UserIds == 1..MaxUsers
Values == (0 - 1)..MaxValue
Workers == {"w1", "w2"}
Providers == {None, Some("X")}
ChargeIds == {None, Some("Y"), Some("Z")}
ProductIds == {1, 2}
Dates == 1..MaxDate
Quantities == 1..MaxQty
Reasons == {"r"}
Styles == {"short", "full", "bogus", ""}
SendResults == {"ok", "api_error", "connection_error"}

\* users        user_id -> the User row (of its columns, credit is modelled)
\* products     id -> the Product row
\* transactions the transactions table; transaction_id is the index
\* orders       the orders table; order_id is the index
\* order_items  the order_items table; item_id is the index
\* calls        per request handler, the operation under way and the rows it
\*              has not committed yet
\* outcome      the last finished call: its name, argument, error and result
VARIABLES users, products, transactions, orders, order_items, calls, outcome

vars == <<users, products, transactions, orders, order_items, calls, outcome>>

tables == <<users, products, transactions, orders, order_items>>

\* ------------------------------------------------------------------ helpers
Idle == [op |-> "idle"]

Result(op, arg, err, ret) == [op |-> op, arg |-> arg, err |-> err, ret |-> ret]

\* sum(...) of Python over a list of integers, left to right
RECURSIVE sum(_)
sum(s) == IF s = <<>> THEN 0 ELSE sum(SubSeq(s, 1, Len(s) - 1)) + s[Len(s)]

\* ------------------------------------------------------------------ User
\* User.__init__: the starting wallet value is 0
NewUser == [credit |-> 0]

createUser(u) ==
    /\ u \notin DOMAIN users
    /\ users' = users @@ (u :> NewUser)
    /\ outcome' = Result("createUser", u, "ok", None)
    /\ UNCHANGED <<products, transactions, orders, order_items, calls>>

\* the backref User.transactions: the rows of the table owned by the user
user_transactions(u) == SelectSeq(transactions, LAMBDA t : t.user_id = u)

\* mutant: the refunded flag is not looked at
valid_transactions_AllRows(u) == user_transactions(u)

\* [t for t in self.transactions if not t.refunded]
valid_transactions(u) == SelectSeq(user_transactions(u), LAMBDA t : ~t.refunded)

\* mutant: the first valid transaction is left out of the sum
credit_sum_SkipFirst(u) ==
    LET v == valid_transactions(u)
    IN  sum([i \in 1..(Len(v) - 1) |-> v[i + 1].value])

\* sum(map(lambda t: t.value, valid_transactions))
credit_sum(u) ==
    LET v == valid_transactions(u)
    IN  sum([i \in 1..Len(v) |-> v[i].value])

\* mutant: the sum is added to the credit instead of replacing it
recalculate_credit_Accumulate(u) ==
    /\ u \in DOMAIN users
    /\ users' = [users EXCEPT ![u].credit = @ + credit_sum(u)]
    /\ outcome' = Result("recalculate_credit", u, "ok", None)
    /\ UNCHANGED <<products, transactions, orders, order_items, calls>>

recalculate_credit(u) ==
    /\ u \in DOMAIN users
    /\ users' = [users EXCEPT ![u].credit = credit_sum(u)]
    /\ outcome' = Result("recalculate_credit", u, "ok", None)
    /\ UNCHANGED <<products, transactions, orders, order_items, calls>>

\* ------------------------------------------------------------------ Transaction
\* A row of the transactions table.  refunded takes the column default.
NewTransaction(u, v, p, c, o) ==
    [user_id |-> u, value |-> v, refunded |-> FALSE,
     provider |-> p, provider_charge_id |-> c, order_id |-> o]

\* mutant: the table carries no unique constraint
UniqueViolation_NoConstraint(rows, t) == FALSE

\* UniqueConstraint("provider", "provider_charge_id"): an insert conflicts with
\* a stored row that has the same pair; a NULL column never conflicts.
UniqueViolation(rows, t) ==
    /\ t.provider # None
    /\ t.provider_charge_id # None
    /\ \E i \in 1..Len(rows) :
          /\ rows[i].provider = t.provider
          /\ rows[i].provider_charge_id = t.provider_charge_id

\* the calls in flight that will each insert one transaction
InFlight == {x \in Workers : calls[x] # Idle}

\* recordTransaction, first half: the call is in flight, nothing is stored
RecordCall(w, u, v, p, c) ==
    /\ calls[w] = Idle
    /\ u \in DOMAIN users
    /\ Len(transactions) + Cardinality(InFlight) < MaxTx
    /\ calls' = [calls EXCEPT ![w] =
                    [op |-> "recordTransaction", row |-> NewTransaction(u, v, p, c, None)]]
    /\ UNCHANGED <<tables, outcome>>

\* recordTransaction, second half: the INSERT, where the constraint is checked
RecordInsert(w) ==
    /\ calls[w] # Idle
    /\ calls[w].op = "recordTransaction"
    /\ IF UniqueViolation(transactions, calls[w].row)
       THEN /\ outcome' = Result("recordTransaction", calls[w].row,
                                 "DuplicateChargeError", None)
            /\ UNCHANGED transactions
       ELSE /\ transactions' = Append(transactions, calls[w].row)
            /\ outcome' = Result("recordTransaction", calls[w].row, "ok",
                                 Some(Len(transactions) + 1))
    /\ calls' = [calls EXCEPT ![w] = Idle]
    /\ UNCHANGED <<users, products, orders, order_items>>

\* markRefunded: sets refunded = true
markRefunded(i) ==
    /\ i \in 1..Len(transactions)
    /\ transactions' = [transactions EXCEPT ![i].refunded = TRUE]
    /\ outcome' = Result("markRefunded", i, "ok", None)
    /\ UNCHANGED <<users, products, orders, order_items, calls>>

\* ------------------------------------------------------------------ external capabilities
\* utils.telegram_html_escape: the escaped form of a text
telegram_html_escape(x) == <<"html", x>>

\* str(w.Price(v)): the formatted amount of v minor units
PriceStr(v) == <<"price", v>>

\* w.Price(v) * q: scalar multiplication by a quantity; None is no quantity
PriceMul(v, q) ==
    IF q = None THEN [err |-> "TypeError"] ELSE [err |-> "ok", value |-> v * q[1]]

\* w.loc.get(key, **params): the localized string of a key
loc_get(key, params) == <<key, params>>

\* ------------------------------------------------------------------ Product
\* mutant: any other style is rendered as the full style
Product_text_AnyStyleFull(p, style, cart_qty) ==
    LET self == products[p]
    IN  IF style = "short"
        THEN IF PriceMul(self.price, cart_qty).err # "ok"
             THEN [err |-> "TypeError"]
             ELSE [err |-> "ok",
                   text |-> <<cart_qty[1], "x", telegram_html_escape(self.name), "-",
                              PriceStr(PriceMul(self.price, cart_qty).value)>>]
        ELSE LET cart == IF cart_qty # None
                         THEN loc_get("in_cart_format_string", <<cart_qty[1]>>)
                         ELSE <<>>
             IN  [err |-> "ok",
                  text |-> loc_get("product_format_string",
                                   <<telegram_html_escape(self.name),
                                     telegram_html_escape(self.description),
                                     PriceStr(self.price), cart>>)]

Product_text(p, style, cart_qty) ==
    LET self == products[p]
    IN  IF style = "short"
        THEN IF PriceMul(self.price, cart_qty).err # "ok"
             THEN [err |-> "TypeError"]
             ELSE [err |-> "ok",
                   text |-> <<cart_qty[1], "x", telegram_html_escape(self.name), "-",
                              PriceStr(PriceMul(self.price, cart_qty).value)>>]
        ELSE IF style = "full"
        THEN LET cart == IF cart_qty # None
                         THEN loc_get("in_cart_format_string", <<cart_qty[1]>>)
                         ELSE <<>>
             IN  [err |-> "ok",
                  text |-> loc_get("product_format_string",
                                   <<telegram_html_escape(self.name),
                                     telegram_html_escape(self.description),
                                     PriceStr(self.price), cart>>)]
        ELSE [err |-> "ValueError"]

\* a call of Product.text: the tables are only read
ProductText(p, style, cart_qty) ==
    /\ outcome' = Result("Product.text", <<p, style, cart_qty>>,
                         Product_text(p, style, cart_qty).err,
                         Product_text(p, style, cart_qty))
    /\ UNCHANGED <<tables, calls>>

\* mutant: a failed send rolls the last ledger write back
send_as_message_Rollback(p, r) ==
    /\ Product_text(p, "full", None).err = "ok"
    /\ outcome' = Result("send_as_message", p,
                         r,
                         [method |-> IF products[p].image = None
                                     THEN "sendMessage" ELSE "sendPhoto",
                          text |-> Product_text(p, "full", None).text])
    /\ transactions' = IF r = "ok" \/ transactions = <<>>
                       THEN transactions
                       ELSE SubSeq(transactions, 1, Len(transactions) - 1)
    /\ UNCHANGED <<users, products, orders, order_items, calls>>

\* Product.send_as_message: sendMessage without an image, sendPhoto with one;
\* r is what the request to the bot platform does
send_as_message(p, r) ==
    /\ Product_text(p, "full", None).err = "ok"
    /\ outcome' = Result("send_as_message", p,
                         r,
                         [method |-> IF products[p].image = None
                                     THEN "sendMessage" ELSE "sendPhoto",
                          text |-> Product_text(p, "full", None).text])
    /\ UNCHANGED <<tables, calls>>

\* Product.set_image: stores the downloaded content in the image column
set_image(p, content) ==
    /\ products[p].image # Some(content)
    /\ products' = [products EXCEPT ![p].image = Some(content)]
    /\ outcome' = Result("set_image", p, "ok", None)
    /\ UNCHANGED <<users, transactions, orders, order_items, calls>>

\* ------------------------------------------------------------------ Order
NewOrder(u, now, notes) ==
    [user_id |-> u, creation_date |-> now, delivery_date |-> None,
     refund_date |-> None, refund_reason |-> None, notes |-> notes]

NewOrderItem(o, line) ==
    [order_id |-> o, product_id |-> line.product_id, quantity |-> line.quantity]

\* the carts a user can submit: one to MaxCart lines
CartLines == [product_id : ProductIds, quantity : Quantities]
Carts == UNION {[1..n -> CartLines] : n \in 1..MaxCart}

\* the total of a list of order items at the products' prices
Total(items) ==
    sum([i \in 1..Len(items) |-> products[items[i].product_id].price * items[i].quantity])

\* the rows linked to an order
OrderTransactions(o) == {i \in 1..Len(transactions) : transactions[i].order_id = Some(o)}
OrderItems(o) == SelectSeq(order_items, LAMBDA it : it.order_id = o)

\* placeOrder, step 1: the Order row is added to the unit of work
PlaceOrderBegin(w, u, cart, now) ==
    /\ calls[w] = Idle
    /\ u \in DOMAIN users
    /\ Len(orders) < MaxOrders
    /\ Len(transactions) + Cardinality(InFlight) < MaxTx
    /\ calls' = [calls EXCEPT ![w] =
                    [op |-> "placeOrder", order_id |-> Len(orders) + 1,
                     order |-> NewOrder(u, now, None), cart |-> cart,
                     items |-> <<>>, transaction |-> None]]
    /\ UNCHANGED <<tables, outcome>>

\* mutant: every added OrderItem is committed on its own
PlaceOrderAddItem_AutoCommit(w) ==
    /\ calls[w] # Idle
    /\ calls[w].op = "placeOrder"
    /\ Len(calls[w].items) < Len(calls[w].cart)
    /\ calls' = [calls EXCEPT ![w].cart = Tail(@)]
    /\ order_items' = Append(order_items,
                             NewOrderItem(calls[w].order_id, calls[w].cart[1]))
    /\ UNCHANGED <<users, products, transactions, orders, outcome>>

\* placeOrder, step 2 (once per cart line): an OrderItem is added
PlaceOrderAddItem(w) ==
    /\ calls[w] # Idle
    /\ calls[w].op = "placeOrder"
    /\ Len(calls[w].items) < Len(calls[w].cart)
    /\ calls' = [calls EXCEPT ![w].items =
                    Append(@, NewOrderItem(calls[w].order_id,
                                           calls[w].cart[Len(calls[w].items) + 1]))]
    /\ UNCHANGED <<tables, outcome>>

\* placeOrder, step 3: the Transaction of the negative total is added
PlaceOrderAddTransaction(w) ==
    /\ calls[w] # Idle
    /\ calls[w].op = "placeOrder"
    /\ Len(calls[w].items) = Len(calls[w].cart)
    /\ calls[w].transaction = None
    /\ calls' = [calls EXCEPT ![w].transaction =
                    Some(NewTransaction(calls[w].order.user_id,
                                        0 - Total(calls[w].items),
                                        None, None, Some(calls[w].order_id)))]
    /\ UNCHANGED <<tables, outcome>>

\* placeOrder, step 4: the unit of work is committed, all rows at once
PlaceOrderCommit(w) ==
    /\ calls[w] # Idle
    /\ calls[w].op = "placeOrder"
    /\ calls[w].transaction # None
    /\ orders' = Append(orders, calls[w].order)
    /\ order_items' = order_items \o calls[w].items
    /\ transactions' = Append(transactions, calls[w].transaction[1])
    /\ calls' = [calls EXCEPT ![w] = Idle]
    /\ outcome' = Result("placeOrder", calls[w].order.user_id, "ok",
                         Some(calls[w].order_id))
    /\ UNCHANGED <<users, products>>

\* placeOrder aborted or crashed at any step: the unit of work is dropped
PlaceOrderAbort(w) ==
    /\ calls[w] # Idle
    /\ calls[w].op = "placeOrder"
    /\ calls' = [calls EXCEPT ![w] = Idle]
    /\ outcome' = Result("placeOrder", calls[w].order.user_id, "aborted", None)
    /\ UNCHANGED tables

\* mutant: deliver does not look at refund_date
deliver_Unguarded(o, now) ==
    /\ o \in 1..Len(orders)
    /\ orders' = [orders EXCEPT ![o].delivery_date = Some(now)]
    /\ outcome' = Result("deliver", o, "ok", None)
    /\ UNCHANGED <<users, products, transactions, order_items, calls>>

\* deliver: sets delivery_date = now unless the order is refunded
deliver(o, now) ==
    /\ o \in 1..Len(orders)
    /\ IF orders[o].refund_date # None
       THEN /\ outcome' = Result("deliver", o, "AlreadyFinalizedError", None)
            /\ UNCHANGED orders
       ELSE /\ orders' = [orders EXCEPT ![o].delivery_date = Some(now)]
            /\ outcome' = Result("deliver", o, "ok", None)
    /\ UNCHANGED <<users, products, transactions, order_items, calls>>

\* refund: sets refund_date and refund_reason and marks the linked transaction
\* refunded, unless the order is delivered
refund(o, reason, now) ==
    /\ o \in 1..Len(orders)
    /\ IF orders[o].delivery_date # None
       THEN /\ outcome' = Result("refund", o, "AlreadyFinalizedError", None)
            /\ UNCHANGED <<orders, transactions>>
       ELSE /\ orders' = [orders EXCEPT ![o].refund_date = Some(now),
                                        ![o].refund_reason = Some(reason)]
            /\ transactions' = [i \in 1..Len(transactions) |->
                                  IF i \in OrderTransactions(o)
                                  THEN [transactions[i] EXCEPT !.refunded = TRUE]
                                  ELSE transactions[i]]
            /\ outcome' = Result("refund", o, "ok", None)
    /\ UNCHANGED <<users, products, order_items, calls>>

\* OrderItem.text
OrderItem_text(it) ==
    <<it.quantity, "x", products[it.product_id].name, "-",
      PriceStr(products[it.product_id].price * it.quantity)>>

\* mutant: refund_date is tested before delivery_date
Order_status_RefundFirst(self) ==
    IF self.refund_date # None
    THEN <<loc_get("emoji_refunded", <<>>), loc_get("text_refunded", <<>>)>>
    ELSE IF self.delivery_date # None
    THEN <<loc_get("emoji_completed", <<>>), loc_get("text_completed", <<>>)>>
    ELSE <<loc_get("emoji_not_processed", <<>>), loc_get("text_not_processed", <<>>)>>

\* Order.text, the status branch: <<status_emoji, status_text>>
Order_status(self) ==
    IF self.delivery_date # None
    THEN <<loc_get("emoji_completed", <<>>), loc_get("text_completed", <<>>)>>
    ELSE IF self.refund_date # None
    THEN <<loc_get("emoji_refunded", <<>>), loc_get("text_refunded", <<>>)>>
    ELSE <<loc_get("emoji_not_processed", <<>>), loc_get("text_not_processed", <<>>)>>

\* mutant: the value is read already negated
Order_transaction_value_Negated(o) ==
    LET i == CHOOSE x \in OrderTransactions(o) : \A y \in OrderTransactions(o) : x <= y
    IN  0 - transactions[i].value

\* joined_self.transaction.value: the value of the transaction the scalar
\* relationship loads (the first linked row)
Order_transaction_value(o) ==
    LET i == CHOOSE x \in OrderTransactions(o) : \A y \in OrderTransactions(o) : x <= y
    IN  transactions[i].value

\* Order.text(w, session, user) under the setting full_order_info; the
\* returned string is the field text, the other fields name its parts
Order_text(o, user, full_order_info) ==
    LET self == orders[o]
        items == [i \in 1..Len(OrderItems(o)) |-> OrderItem_text(OrderItems(o)[i])]
        status == Order_status(self)
        reason == IF self.refund_date # None
                  THEN loc_get("refund_reason", <<self.refund_reason>>)
                  ELSE <<>>
    IN  IF OrderTransactions(o) = {}
        THEN [err |-> "NoResultFound"]
        ELSE IF user /\ full_order_info = "no"
        THEN [err |-> "ok",
              status_emoji |-> status[1],
              status_text |-> Some(status[2]),
              value |-> PriceStr(0 - Order_transaction_value(o)),
              text |-> <<loc_get("user_order_format_string",
                                 <<status[1], status[2], items, self.notes,
                                   PriceStr(0 - Order_transaction_value(o))>>),
                         reason>>]
        ELSE [err |-> "ok",
              status_emoji |-> status[1],
              status_text |-> None,
              value |-> PriceStr(0 - Order_transaction_value(o)),
              text |-> <<status[1], loc_get("order_number", <<o>>),
                         loc_get("order_format_string",
                                 <<self.user_id, self.creation_date, items,
                                   IF self.notes # None THEN self.notes[1] ELSE "",
                                   PriceStr(0 - Order_transaction_value(o))>>),
                         reason>>]

\* a call of Order.text: the tables are only read
OrderText(o, user, full_order_info) ==
    /\ o \in 1..Len(orders)
    /\ outcome' = Result("Order.text", <<o, user, full_order_info>>,
                         Order_text(o, user, full_order_info).err,
                         Order_text(o, user, full_order_info))
    /\ UNCHANGED <<tables, calls>>

\* ------------------------------------------------------------------ specification
\* the catalog: two products for sale, no image stored yet
Catalog == [p \in ProductIds |->
              [name |-> <<"name", p>>, description |-> <<"description", p>>,
               price |-> p, image |-> None, deleted |-> FALSE]]

Init ==
    /\ users = <<>>
    /\ products = Catalog
    /\ transactions = <<>>
    /\ orders = <<>>
    /\ order_items = <<>>
    /\ calls = [w \in Workers |-> Idle]
    /\ outcome = Result("none", None, "ok", None)

\* The ledger driven by one request handler: manual credit adjustments
\* (no payment provider), refunds and recalculation.
Next ==
    \/ \E u \in UserIds : createUser(u)
    \/ \E u \in UserIds, v \in Values : RecordCall("w1", u, v, None, None)
    \/ RecordInsert("w1")
    \/ \E i \in 1..MaxTx : markRefunded(i)
    \/ \E u \in UserIds : recalculate_credit(u)

Spec == Init /\ [][Next]_vars

\* Payment webhooks delivered at least once to two request handlers: the
\* same charge may be recorded by both at the same time.
NextCharge ==
    \/ createUser(1)
    \/ \E w \in Workers, p \in Providers, c \in ChargeIds : RecordCall(w, 1, 1, p, c)
    \/ \E w \in Workers : RecordInsert(w)

SpecCharge == Init /\ [][NextCharge]_vars

\* Orders placed, delivered and refunded by one request handler, and product
\* messages sent.
NextOrder ==
    \/ createUser(1)
    \/ \E cart \in Carts, now \in Dates : PlaceOrderBegin("w1", 1, cart, now)
    \/ PlaceOrderAddItem("w1")
    \/ PlaceOrderAddTransaction("w1")
    \/ PlaceOrderCommit("w1")
    \/ PlaceOrderAbort("w1")
    \/ \E o \in 1..MaxOrders, now \in Dates : deliver(o, now)
    \/ \E o \in 1..MaxOrders, reason \in Reasons, now \in Dates : refund(o, reason, now)

SpecOrder == Init /\ [][NextOrder]_vars

\* Product messages sent, and product images stored, while the ledger and
\* the orders are written by one request handler.
NextSend ==
    \/ createUser(1)
    \/ RecordCall("w1", 1, 1, None, None)
    \/ RecordInsert("w1")
    \/ recalculate_credit(1)
    \/ \E p \in ProductIds : PlaceOrderBegin("w1", 1, <<[product_id |-> p, quantity |-> 1]>>, 1)
    \/ PlaceOrderAddItem("w1")
    \/ PlaceOrderAddTransaction("w1")
    \/ PlaceOrderCommit("w1")
    \/ \E o \in 1..MaxOrders : deliver(o, 1)
    \/ \E o \in 1..MaxOrders : refund(o, "r", 1)
    \/ \E p \in ProductIds : set_image(p, "bytes")
    \/ \E p \in ProductIds, r \in SendResults : send_as_message(p, r)

SpecSend == Init /\ [][NextSend]_vars

\* Rendering: one stored order in every combination of the nullable date
\* columns the schema admits, with its item and its transaction.
OptDates == {None} \cup {Some(d) : d \in Dates}

InitText ==
    /\ users = (1 :> NewUser)
    /\ products = Catalog
    /\ \E d \in OptDates, r \in OptDates, line \in CartLines :
          /\ orders = <<[NewOrder(1, 1, None) EXCEPT
                            !.delivery_date = d, !.refund_date = r,
                            !.refund_reason = IF r = None THEN None ELSE Some("r")]>>
          /\ order_items = <<NewOrderItem(1, line)>>
          /\ transactions =
                <<[NewTransaction(1, 0 - Total(<<NewOrderItem(1, line)>>),
                                  None, None, Some(1))
                      EXCEPT !.refunded = (r # None)]>>
    /\ calls = [w \in Workers |-> Idle]
    /\ outcome = Result("none", None, "ok", None)

NextText ==
    \/ \E p \in ProductIds, style \in Styles, q \in {None} \cup {Some(n) : n \in Quantities} :
          ProductText(p, style, q)
    \/ \E user \in BOOLEAN, full_order_info \in {"yes", "no"} : OrderText(1, user, full_order_info)

SpecText == InitText /\ [][NextText]_vars

\* ------------------------------------------------------------------ ledger claims
\* the rows of the table owned by a user that are not refunded, as a set of ids
LiveIds(u) ==
    {i \in 1..Len(transactions) :
        transactions[i].user_id = u /\ transactions[i].refunded = FALSE}

\* sum of value over a set of transaction ids, in no particular order
RECURSIVE SumOver(_)
SumOver(S) ==
    IF S = {} THEN 0
    ELSE LET i == CHOOSE x \in S : TRUE
         IN  transactions[i].value + SumOver(S \ {i})

\* C1: right after recalculate_credit on a user, user.credit is the sum of
\* value over that user's non-refunded transactions (0 when there is none),
\* whatever the insertion order and whatever credit held before.
C1_RecalcGivesLedgerSum ==
    outcome.op = "recalculate_credit" =>
        users[outcome.arg].credit = SumOver(LiveIds(outcome.arg))

\* C1 witness: a recalculation over a ledger holding a refunded and two live
\* transactions of the same user, inserted in descending order of value.
C1_Witness ==
    /\ outcome.op = "recalculate_credit"
    /\ users[outcome.arg].credit # 0
    /\ Cardinality(LiveIds(outcome.arg)) >= 2
    /\ \E i, j \in LiveIds(outcome.arg) : i < j /\ transactions[i].value > transactions[j].value
    /\ \E i \in 1..Len(transactions) :
          transactions[i].user_id = outcome.arg /\ transactions[i].refunded

\* C2 as stated: in every reachable state every user's credit is the sum of
\* value over the user's non-refunded transactions.
C2_CreditAlwaysLedgerSum ==
    \A u \in DOMAIN users : users[u].credit = SumOver(LiveIds(u))

\* C2 amended: credit is the ledger sum at creation and after each
\* recalculate_credit; a step that inserts or refunds a transaction leaves
\* credit as it was, and every other step keeps credit equal to the sum if it
\* was equal before.
C2_CreditSumUntilLedgerChange ==
    [][\A u \in DOMAIN users' :
          IF u \notin DOMAIN users
          THEN users'[u].credit = 0 /\ LiveIds(u)' = {}
          ELSE IF transactions' # transactions
          THEN users'[u].credit = users[u].credit
          ELSE /\ users[u].credit = SumOver(LiveIds(u))
                    => users'[u].credit = SumOver(LiveIds(u))
               /\ users'[u].credit # users[u].credit
                    => users'[u].credit = SumOver(LiveIds(u))]_vars

\* C2 witness: a stale credit (an insert not yet followed by a recalculation)
\* next to a user whose credit was recalculated to a non-zero sum.
C2_Witness ==
    /\ \E u \in DOMAIN users :
          users[u].credit # 0 /\ users[u].credit = SumOver(LiveIds(u))
    /\ \E u \in DOMAIN users : users[u].credit # SumOver(LiveIds(u))

\* C7: marking a non-refunded transaction refunded lowers what recalculation
\* yields for the owner by exactly the transaction's value; marking a refunded
\* transaction again changes neither the transaction nor the credit.
C7_RefundRemovesValue ==
    [][\A i \in 1..Len(transactions) :
          markRefunded(i) =>
             LET u == transactions[i].user_id
             IN  IF transactions[i].refunded
                 THEN /\ transactions' = transactions
                      /\ users' = users
                      /\ credit_sum(u)' = credit_sum(u)
                 ELSE /\ transactions'[i].refunded
                      /\ credit_sum(u)' = credit_sum(u) - transactions[i].value
                      /\ \A x \in DOMAIN users : x # u => credit_sum(x)' = credit_sum(x)]_vars

\* C7 witness: a transaction of non-zero value was marked refunded a second
\* time after the owner's credit had been recalculated without it.
C7_Witness ==
    /\ outcome.op = "markRefunded"
    /\ transactions[outcome.arg].refunded
    /\ transactions[outcome.arg].value # 0
    /\ LET u == transactions[outcome.arg].user_id
       IN  /\ users[u].credit # 0
           /\ users[u].credit = credit_sum(u)
           /\ LiveIds(u) # {}
\* ------------------------------------------------------------------ charge claims
HasPair(t) == t.provider # None /\ t.provider_charge_id # None

\* the stored transactions carrying the (provider, provider_charge_id) of t
StoredWithPair(t) ==
    {i \in 1..Len(transactions) :
        /\ transactions[i].provider = t.provider
        /\ transactions[i].provider_charge_id = t.provider_charge_id}

\* C3: no two stored transactions share a non-null (provider,
\* provider_charge_id) pair; a recordTransaction that ends with
\* DuplicateChargeError leaves exactly one stored transaction with its pair,
\* and one that succeeds stored its row as the only one with that pair.
C3_OneChargePersisted ==
    /\ \A i, j \in 1..Len(transactions) :
          (i # j /\ HasPair(transactions[i])) => j \notin StoredWithPair(transactions[i])
    /\ outcome.op = "recordTransaction" =>
          IF outcome.err = "DuplicateChargeError"
          THEN HasPair(outcome.arg) /\ Cardinality(StoredWithPair(outcome.arg)) = 1
          ELSE /\ outcome.err = "ok"
               /\ transactions[outcome.ret[1]] = outcome.arg
               /\ HasPair(outcome.arg) => StoredWithPair(outcome.arg) = {outcome.ret[1]}

\* C3 witness: of two calls in flight with the same pair one was stored and
\* the other was rejected, while a further call with that pair is in flight.
C3_Witness ==
    /\ outcome.op = "recordTransaction"
    /\ outcome.err = "DuplicateChargeError"
    /\ Len(transactions) = 1
    /\ \E w \in Workers :
          /\ calls[w] # Idle
          /\ calls[w].row.provider = outcome.arg.provider
          /\ calls[w].row.provider_charge_id = outcome.arg.provider_charge_id

\* ------------------------------------------------------------------ order claims
\* status(order): derived from the two optional dates
Status(order) ==
    IF order.delivery_date # None THEN "Delivered"
    ELSE IF order.refund_date # None THEN "Refunded"
    ELSE "Pending"

\* C4: no order is both delivered and refunded; deliver on a refunded order
\* and refund on a delivered order fail with AlreadyFinalizedError and change
\* neither the order nor its transaction; a Delivered or Refunded order keeps
\* its status.
C4_FinalizedOrdersStay ==
    [][\A o \in 1..Len(orders) :
          /\ ~(orders'[o].delivery_date # None /\ orders'[o].refund_date # None)
          /\ Status(orders[o]) \in {"Delivered", "Refunded"}
                => Status(orders'[o]) = Status(orders[o])
          /\ \A now \in Dates :
                (deliver(o, now) /\ orders[o].refund_date # None)
                   => /\ outcome'.err = "AlreadyFinalizedError"
                      /\ orders' = orders
                      /\ transactions' = transactions
          /\ \A now \in Dates, reason \in Reasons :
                (refund(o, reason, now) /\ orders[o].delivery_date # None)
                   => /\ outcome'.err = "AlreadyFinalizedError"
                      /\ orders' = orders
                      /\ transactions' = transactions]_vars

\* C4 witness: deliver was just rejected on a refunded order, next to a
\* delivered order.
C4_Witness ==
    /\ outcome.op = "deliver"
    /\ outcome.err = "AlreadyFinalizedError"
    /\ Status(orders[outcome.arg]) = "Refunded"
    /\ \E o \in 1..Len(orders) : Status(orders[o]) = "Delivered"

\* C5: every stored order has exactly one transaction whose order_id is that
\* order, and the value Order.text reports is the formatted negation of that
\* transaction's value.
C5_OneTransactionPerOrder ==
    \A o \in 1..Len(orders) :
        /\ Cardinality(OrderTransactions(o)) = 1
        /\ \A user \in BOOLEAN, full_order_info \in {"yes", "no"} :
              /\ Order_text(o, user, full_order_info).err = "ok"
              /\ \A i \in OrderTransactions(o) :
                    Order_text(o, user, full_order_info).value
                       = PriceStr(0 - transactions[i].value)

\* C5 witness: two stored orders of different totals, one of them refunded.
C5_Witness ==
    /\ Len(orders) = 2
    /\ \E i \in OrderTransactions(1), j \in OrderTransactions(2) :
          /\ transactions[i].value < transactions[j].value
          /\ transactions[j].value < 0
          /\ transactions[i].refunded

\* C6: for every order id, either the Order row, at least one OrderItem, and
\* exactly one Transaction of the owner whose value is the negated total of
\* the visible items are stored, or no row of that order is stored; this
\* holds while placeOrder is under way and after it was aborted.
C6_PlaceOrderAtomic ==
    \A o \in 1..MaxOrders :
        IF o <= Len(orders)
        THEN /\ OrderItems(o) # <<>>
             /\ Cardinality(OrderTransactions(o)) = 1
             /\ \A i \in OrderTransactions(o) :
                   /\ transactions[i].value = 0 - Total(OrderItems(o))
                   /\ transactions[i].user_id = orders[o].user_id
        ELSE /\ OrderItems(o) = <<>>
             /\ OrderTransactions(o) = {}

\* C6 witness: a placeOrder was aborted after an order of two items had been
\* committed.
C6_Witness ==
    /\ outcome.op = "placeOrder"
    /\ outcome.err = "aborted"
    /\ Len(orders) = 1
    /\ Len(OrderItems(1)) = 2
    /\ OrderItems(2) = <<>>

\* ------------------------------------------------------------------ send claims
\* C9: Product.send_as_message, sent by sendMessage without an image and by
\* sendPhoto with one, succeeding or failing, changes no user, product,
\* transaction, order or order item, and no unit of work under way.
C9_SendChangesNoRecord ==
    [][\A p \in ProductIds, r \in SendResults :
          send_as_message(p, r)
             => /\ UNCHANGED <<users, products, transactions, orders, order_items, calls>>
                /\ outcome'.err = r
                /\ products[p].image = None => outcome'.ret.method = "sendMessage"
                /\ products[p].image # None => outcome'.ret.method = "sendPhoto"]_vars

\* C9 witness: a sendPhoto failed after a transaction, an order and a
\* recalculated credit had been stored.
C9_Witness ==
    /\ outcome.op = "send_as_message"
    /\ outcome.err = "connection_error"
    /\ outcome.ret.method = "sendPhoto"
    /\ Len(transactions) >= 2
    /\ Len(orders) >= 1
    /\ users[1].credit # 0

\* ------------------------------------------------------------------ rendering claims
\* C8: Order.text shows the completed emoji and text when delivery_date is
\* set (also when refund_date is set as well), otherwise the refunded ones
\* when refund_date is set, otherwise the not-processed ones.
C8_StatusFromDates ==
    outcome.op = "Order.text" =>
        LET self == orders[outcome.arg[1]]
            r == outcome.ret
            shows(emoji, text) ==
                /\ r.status_emoji = loc_get(emoji, <<>>)
                /\ r.status_text # None => r.status_text = Some(loc_get(text, <<>>))
        IN  /\ r.err = "ok"
            /\ (outcome.arg[2] /\ outcome.arg[3] = "no") => r.status_text # None
            /\ self.delivery_date # None => shows("emoji_completed", "text_completed")
            /\ (self.delivery_date = None /\ self.refund_date # None)
                  => shows("emoji_refunded", "text_refunded")
            /\ (self.delivery_date = None /\ self.refund_date = None)
                  => shows("emoji_not_processed", "text_not_processed")

\* C8 witness: the compact text of an order with both dates set was rendered.
C8_Witness ==
    /\ outcome.op = "Order.text"
    /\ orders[1].delivery_date # None
    /\ orders[1].refund_date # None
    /\ outcome.ret.status_text = Some(loc_get("text_completed", <<>>))

====
